---- MODULE Spec2Model ----
(***************************************************************************)
(* Model of the GitHub MCP tool handlers of src/git_repo.py,               *)
(* src/git_issues.py, src/pull_requests.py and src/search_repo.py.          *)
(*                                                                         *)
(* Every tool handler is one action.  A handler runs to completion: it     *)
(* calls the upstream client (PyGithub) and, for push_to_github, the local *)
(* version-control library (GitPython), then returns a value or lets an    *)
(* exception escape.  The model records, for the last invocation, the      *)
(* request, the upstream calls made, and the value handed to the caller.   *)
(***************************************************************************)
EXTENDS Integers, Sequences, FiniteSets, TLC

\* ---------------------------------------------------------------- bounds
MaxItems == 3        \* upstream result sets hold 0..MaxItems items
MaxPage == 2         \* requested page ranges over 0..MaxPage
MaxPerPage == 2      \* requested per_page ranges over 0..MaxPerPage
NumContents == 2     \* distinct file contents a request may carry

\* The retry bound the specification asks for (section 4.4); the code has no
\* such constant.
MaxAttempts == 3

\* PyGithub's page size: every client is built as Github(token), without
\* per_page, so the library default applies.
UpstreamPerPage == 30

VARIABLES
    items,      \* upstream: the result set a listing/search query yields, in upstream order
    file,       \* upstream: content id stored at the path (0 = no file)
    local,      \* the local working copy at repo_path
    lastOp,     \* name of the handler that ran last ("none" before any)
    req,        \* the request parameters of that invocation
    result,     \* what the handler handed to its caller
    upTrace,    \* upstream client calls of that invocation, in order: [op, outcome]
    forwarded,  \* the enumerated keyword arguments that invocation passed upstream
    fetched     \* upstream items materialised during that invocation

vars == <<items, file, local, lastOp, req, result, upTrace, forwarded, fetched>>

\* ---------------------------------------------------------------- failures
\* Failures an upstream call can raise.  not_found (unknown or unauthorised
\* resource), conflict (refused write: stale sha, unmergeable, invalid) and
\* rate_limit are GithubException subclasses; timeout stands for the
\* transport-level errors (timeout, connection reset), which are not.
Failures == {"not_found", "conflict", "rate_limit", "timeout"}
Transient == {"rate_limit", "timeout"}
IsGithubException(exc) == exc \in {"not_found", "conflict", "rate_limit"}

\* A fault plan for one invocation: the at-th upstream call (0: none) fails
\* with kind, and keeps failing if it is attempted again.
\* FaultsFor(n): the plans for a handler that makes up to n upstream calls.
NoFault == [at |-> 0, kind |-> "ok"]
FaultsFor(n) == {NoFault} \cup [at : 1..n, kind : Failures]

Min(a, b) == IF a < b THEN a ELSE b
Max(a, b) == IF a > b THEN a ELSE b

\* ---------------------------------------------------------------- requests
NoneSha == <<"none">>            \* sha absent (None)
EmptySha == <<"">>               \* sha given as the empty string
ShaOf(c) == <<"sha", c>>         \* blob sha of content c
Contents == 1..NumContents
Shas == {NoneSha, EmptySha} \cup {ShaOf(c) : c \in Contents}

NoReq == [page |-> 0, per_page |-> 0, sha |-> NoneSha, content |-> 0, since |-> "-",
          serialisable |-> TRUE, branch |-> "-", remote_url |-> "-", commit_msg |-> "-",
          state |-> "", sort |-> "", direction |-> "", merge_method |-> ""]
PageReq(page, per_page) == [NoReq EXCEPT !.page = page, !.per_page = per_page]

Pages == 0..MaxPage
PerPages == 0..MaxPerPage

\* ---------------------------------------------------------------- results
\* shape: "envelope"  {"content": [{"type": "text", "text": ...}]}
\*        "dict"      a search handler's {"total_count": .., ..} / {"error": ..}
\*        "list"      a bare Python list of raw_data
\*        "object"    a PyGithub object
\*        "iterator"  a PyGithub PaginatedList
\*        "none"      None
\*        "raised"    no value: the exception left the handler
Envelope(kind, payload, text) ==
    [shape |-> "envelope", kind |-> kind, payload |-> payload, text |-> text]
Success(payload) == Envelope("success", payload, <<>>)
\* f"Error: {str(e)}"
ErrorText(exc) == <<"Error: ", exc>>
Error(exc) == Envelope("error", <<>>, ErrorText(exc))
Raised(exc) == [shape |-> "raised", kind |-> "none", payload |-> <<>>, text |-> <<exc>>]
NoResult == [shape |-> "none", kind |-> "none", payload |-> <<>>, text |-> <<>>]

\* The three ways the handlers guard their upstream calls.
Catches(policy, exc) ==
    CASE policy = "Exception" -> TRUE
      [] policy = "GithubException" -> IsGithubException(exc)
      [] OTHER -> FALSE

\* except <policy> as e: return the error envelope; otherwise e escapes.
Caught(policy, exc) == IF Catches(policy, exc) THEN Error(exc) ELSE Raised(exc)

\* ---------------------------------------------------------------- upstream calls
\* How often one upstream call is attempted: each call is a plain method call
\* inside the handler, so once, whatever it raises.
AttemptsRetryAll(outcome) == IF outcome = "ok" THEN 1 ELSE MaxAttempts
Attempts(outcome) == 1

Repeat(x, n) == [i \in 1..n |-> x]

\* Runs the calls ops in order; natural[i] is what call i answers when no fault
\* hits it.  The first failing call ends the run.
RECURSIVE RunFrom(_, _, _, _)
RunFrom(ops, natural, fault, i) ==
    IF i > Len(ops) THEN [trace |-> <<>>, failedAt |-> 0, exc |-> "ok"]
    ELSE LET outcome == IF fault.at = i THEN fault.kind ELSE natural[i]
             entries == Repeat([op |-> ops[i], outcome |-> outcome], Attempts(outcome))
         IN IF outcome # "ok"
            THEN [trace |-> entries, failedAt |-> i, exc |-> outcome]
            ELSE LET rest == RunFrom(ops, natural, fault, i + 1)
                 IN [rest EXCEPT !.trace = entries \o rest.trace]

AllOk(ops) == [i \in 1..Len(ops) |-> "ok"]
RunCalls(ops, fault) == RunFrom(ops, AllOk(ops), fault, 1)

\* ---------------------------------------------------------------- pagination
SubSeqOrEmpty(s, lo, hi) == IF lo > hi THEN <<>> ELSE SubSeq(s, lo, hi)

\* PaginatedList[start:end] iterated to the end: the elements at 0-based
\* positions start .. end-1 that exist.  A negative start indexes the (still
\* empty) list of fetched elements and raises IndexError.
SliceRaises(start, end) == start < 0 /\ start < end
Slice(s, start, end) == SubSeqOrEmpty(s, start + 1, Min(end, Len(s)))
\* Consuming the slice fetches from upstream only when it has a position to visit.
SliceCalls(start, end) == IF start >= 0 /\ start < end THEN <<"fetch">> ELSE <<>>
\* Elements the library has pulled from upstream once the slice is consumed.
SliceFetched(s, start, end) == IF start >= end THEN 0 ELSE Min(end, Len(s))

\* start = (page - 1) * per_page ; end = start + per_page
WindowStart(page, per_page) == (page - 1) * per_page
WindowEnd(page, per_page) == WindowStart(page, per_page) + per_page

\* ---------------------------------------------------------------- bookkeeping
Handed(op, r, res, trace, n) ==
    /\ lastOp' = op
    /\ req' = r
    /\ result' = res
    /\ upTrace' = trace
    /\ fetched' = n

\* Nothing enumerated goes upstream, except from list_pull_requests and
\* merge_pull_request.
NoForward == [state |-> "-", sort |-> "-", direction |-> "-", merge_method |-> "-"]

Returns(op, r, res, trace, n) ==
    /\ Handed(op, r, res, trace, n)
    /\ forwarded' = NoForward

\* ================================================================ git_repo.py
get_commit(fault) ==
    LET run == RunCalls(<<"get_repo", "get_commit">>, fault)
    IN /\ Returns("get_commit", NoReq,
                  IF run.exc = "ok" THEN Success(<<1>>) ELSE Caught("Exception", run.exc),
                  run.trace, 0)
       /\ UNCHANGED <<items, file, local>>

\* The body list_commits and list_branches share, up to the query they issue:
\* resolve the repository, build the lazy query, consume its [start:end] slice.
SlicedListing(query, page, per_page, fault) ==
    LET start == WindowStart(page, per_page)
        end == WindowEnd(page, per_page)
        \* the slice is consumed inside the try: its page fetches are upstream calls
        run == RunCalls(<<"get_repo", query>> \o SliceCalls(start, end), fault)
    IN [trace |-> run.trace,
        res |-> IF run.exc # "ok" THEN Caught("Exception", run.exc)
                ELSE IF SliceRaises(start, end) THEN Caught("Exception", "index_error")
                ELSE Success(Slice(items, start, end)),
        n |-> IF run.exc # "ok" \/ SliceRaises(start, end) THEN 0
              ELSE SliceFetched(items, start, end)]

list_commits(page, per_page, fault) ==
    LET out == SlicedListing("get_commits", page, per_page, fault)
    IN /\ Returns("list_commits", PageReq(page, per_page), out.res, out.trace, out.n)
       /\ UNCHANGED <<items, file, local>>

list_branches(page, per_page, fault) ==
    LET out == SlicedListing("get_branches", page, per_page, fault)
    IN /\ Returns("list_branches", PageReq(page, per_page), out.res, out.trace, out.n)
       /\ UNCHANGED <<items, file, local>>

\* if sha: update_file(...) else: create_file(...)
IsUpdateNever(sha) == FALSE
IsUpdate(sha) == sha \notin {NoneSha, EmptySha}
FileCall(sha) == IF IsUpdate(sha) THEN "update_file" ELSE "create_file"

\* Upstream's answer to a contents write: a create of an existing path and an
\* update with a sha other than the stored blob's are refused.
FileAnswer(sha) ==
    IF IsUpdate(sha)
    THEN IF file # 0 /\ sha = ShaOf(file) THEN "ok" ELSE "conflict"
    ELSE IF file = 0 THEN "ok" ELSE "conflict"

create_or_update_file(content, sha, serialisable, fault) ==
    LET run == RunFrom(<<"get_repo", FileCall(sha)>>, <<"ok", FileAnswer(sha)>>, fault, 1)
        \* json.dumps(resp): resp is the library's {"content": .., "commit": ..}
        res == IF run.exc # "ok" THEN Caught("Exception", run.exc)
               ELSE IF ~serialisable THEN Caught("Exception", "type_error")
               ELSE Success(<<content>>)
    IN /\ Returns("create_or_update_file",
                  [NoReq EXCEPT !.content = content, !.sha = sha,
                                !.serialisable = serialisable],
                  res, run.trace, 0)
       /\ file' = IF run.exc = "ok" THEN content ELSE file
       /\ UNCHANGED <<items, local>>

create_repository(fault) ==
    LET run == RunCalls(<<"get_user", "create_repo">>, fault)
    IN /\ Returns("create_repository", NoReq,
                  IF run.exc = "ok" THEN Success(<<1>>) ELSE Caught("Exception", run.exc),
                  run.trace, 0)
       /\ UNCHANGED <<items, file, local>>

fork_repository(fault) ==
    LET run == RunCalls(<<"get_repo", "create_fork">>, fault)
    IN /\ Returns("fork_repository", NoReq,
                  IF run.exc = "ok" THEN Success(<<1>>) ELSE Caught("Exception", run.exc),
                  run.trace, 0)
       /\ UNCHANGED <<items, file, local>>

\* ---------------------------------------------------------------- push_to_github
Urls == {"url1", "url2"}
Branches == {"", "main", "dev"}         \* "" : falsy, replaced by "main"
CommitMsgs == {"", "msg1"}              \* "" : absent, replaced by "Initial commit"

\* branch = params.branch or "main" ; commit_msg = params.commit_msg or "Initial commit"
BranchOf(branch) == IF branch = "" THEN "main" ELSE branch
CommitMsgOf(commit_msg) == IF commit_msg = "" THEN "Initial commit" ELSE commit_msg

\* The working copy: exists (the path is there), isRepo (it holds a git
\* repository), commits (the history of HEAD, oldest first, as commit messages),
\* dirty (the work tree has changes that are not staged), staged (the index has
\* changes that are not committed), branch, origin (url of the remote named
\* origin, "none" without one), pushedTo (url the last push went to).
NoRepo(exists, dirty) ==
    [exists |-> exists, isRepo |-> FALSE, commits |-> <<>>, dirty |-> dirty,
     staged |-> FALSE, branch |-> "-", origin |-> "none", pushedTo |-> "none"]
HeadIsValid(l) == l.commits # <<>>

\* if not repo.head.is_valid(): repo.index.commit(commit_msg)
CommitAlways(l) == <<"commit">>
CommitCalls(l) == IF ~HeadIsValid(l) THEN <<"commit">> ELSE <<>>

\* if "origin" not in [r.name for r in repo.remotes]: create_remote else remote
RemoteCallsAlwaysCreate(l) == <<"create_remote">>
RemoteCalls(l) == IF l.origin = "none" THEN <<"create_remote">> ELSE <<"remote">>

\* The version-control calls that follow Repo(repo_path), in program order;
\* opened is "ok" or "invalid_repo" (InvalidGitRepositoryError, caught: init).
PushCalls(l, opened) ==
    (IF opened = "invalid_repo" THEN <<"Repo.init">> ELSE <<>>)
    \o <<"add">> \o CommitCalls(l) \o <<"branch">> \o RemoteCalls(l) \o <<"push">>

\* What one completed version-control call does to the working copy.
ApplyCall(l, op, r) ==
    CASE op = "Repo.init" -> [l EXCEPT !.isRepo = TRUE, !.branch = "master"]
      [] op = "add" -> [l EXCEPT !.staged = l.staged \/ l.dirty, !.dirty = FALSE]
      [] op = "commit" ->
            [l EXCEPT !.commits = Append(l.commits, CommitMsgOf(r.commit_msg)),
                      !.staged = FALSE]
      [] op = "branch" -> [l EXCEPT !.branch = BranchOf(r.branch)]
      [] op = "create_remote" -> [l EXCEPT !.origin = r.remote_url]
      [] op = "push" -> [l EXCEPT !.pushedTo = l.origin]
      [] OTHER -> l

RECURSIVE ApplyTrace(_, _, _)
ApplyTrace(l, trace, r) ==
    IF trace = <<>> THEN l
    ELSE LET e == Head(trace)
         IN ApplyTrace(IF e.outcome = "ok" THEN ApplyCall(l, e.op, r) ELSE l, Tail(trace), r)

\* The working copy when the handler returns.  except Exception as e: only
\* renders the message; nothing is undone.
LocalAfterRollback(l, trace, r) ==
    IF trace # <<>> /\ trace[Len(trace)].outcome \notin {"ok", "invalid_repo"}
    THEN l
    ELSE ApplyTrace(l, trace, r)
LocalAfter(l, trace, r) == ApplyTrace(l, trace, r)

\* A fault plan for the version-control calls; they raise GitCommandError.
PushFaults == {NoFault} \cup [at : 1..7, kind : {"git_error"}]

\* origin.push(refspec=...) hands back the remote's answer per ref and raises
\* only when the command itself could not run: a ref the remote rejects (a
\* non-fast-forward, a protected branch) is flagged in the returned PushInfo,
\* which the handler does not read.
PushAnswers == {"ok", "rejected"}

\* The trace of a run in which nothing was raised ends with the push; its
\* outcome is the remote's answer.
Answered(trace, exc, answer) ==
    IF exc = "ok" THEN [trace EXCEPT ![Len(trace)].outcome = answer] ELSE trace

push_to_github(remote_url, branch, commit_msg, answer, fault) ==
    LET r == [NoReq EXCEPT !.remote_url = remote_url, !.branch = branch,
                           !.commit_msg = commit_msg]
        opened == IF fault.at = 1 THEN fault.kind
                  ELSE IF local.isRepo THEN "ok" ELSE "invalid_repo"
        first == <<[op |-> "Repo", outcome |-> opened]>>
        rest == RunCalls(PushCalls(local, opened),
                         [fault EXCEPT !.at = IF fault.at = 0 THEN 0 ELSE fault.at - 1])
        exc == IF opened = "git_error" THEN opened ELSE rest.exc
        trace == Answered(IF opened = "git_error" THEN first ELSE first \o rest.trace,
                          exc, answer)
    IN IF ~local.exists
       \* if not os.path.exists(repo_path): return "Repo path does not exist."
       THEN /\ Returns("push_to_github", r,
                       Envelope("error", <<>>, <<"Repo path does not exist.">>), <<>>, 0)
            /\ UNCHANGED <<items, file, local>>
       ELSE /\ Returns("push_to_github", r,
                       IF exc = "ok"
                       THEN Envelope("success", <<>>,
                                     <<"Successfully pushed to ", remote_url, BranchOf(branch)>>)
                       ELSE Caught("Exception", exc),
                       trace, 0)
            /\ local' = LocalAfter(local, trace, r)
            /\ UNCHANGED <<items, file>>

\* ================================================================ git_issues.py
\* The handlers of this file have no try/except: whatever is raised escapes.
get_issue(fault) ==
    LET run == RunCalls(<<"get_repo", "get_issue">>, fault)
    IN /\ Returns("get_issue", NoReq,
                  IF run.exc = "ok" THEN Success(<<1>>) ELSE Caught("none", run.exc),
                  run.trace, 0)
       /\ UNCHANGED <<items, file, local>>

add_issue_comment(fault) ==
    LET run == RunCalls(<<"get_repo", "get_issue", "create_comment">>, fault)
    IN /\ Returns("add_issue_comment", NoReq,
                  IF run.exc = "ok" THEN Success(<<1>>) ELSE Caught("none", run.exc),
                  run.trace, 0)
       /\ UNCHANGED <<items, file, local>>

\* PaginatedList.get_page(k): upstream's k-th page (0-based) of UpstreamPerPage
\* items; upstream serves its first page for a page number below 1.
GetPage(s, k) ==
    Slice(s, Max(k, 0) * UpstreamPerPage, (Max(k, 0) + 1) * UpstreamPerPage)

\* return [issue.raw_data for issue in results.get_page(params.page - 1)]
search_issues(page, per_page, fault) ==
    LET run == RunCalls(<<"search_issues", "get_page">>, fault)
        data == GetPage(items, page - 1)
    IN /\ Returns("search_issues", PageReq(page, per_page),
                  IF run.exc = "ok"
                  THEN [shape |-> "list", kind |-> "success", payload |-> data, text |-> <<>>]
                  ELSE Caught("none", run.exc),
                  run.trace,
                  IF run.exc = "ok" THEN Len(data) ELSE 0)
       /\ UNCHANGED <<items, file, local>>

\* return issue
create_issue(fault) ==
    LET run == RunCalls(<<"get_repo", "create_issue">>, fault)
    IN /\ Returns("create_issue", NoReq,
                  IF run.exc = "ok"
                  THEN [shape |-> "object", kind |-> "success", payload |-> <<1>>, text |-> <<>>]
                  ELSE Caught("none", run.exc),
                  run.trace, 0)
       /\ UNCHANGED <<items, file, local>>

\* datetime.fromisoformat(params.since): since is None when absent (TypeError),
\* or a string that is ISO-8601 or not (ValueError).
Sinces == {"absent", "malformed", "iso"}
FromIsoFormat(since) ==
    CASE since = "absent" -> "type_error"
      [] since = "malformed" -> "value_error"
      [] OTHER -> "ok"

\* return issue  (the PaginatedList repo.get_issues() built, nothing fetched)
list_issues(since, fault) ==
    LET resolved == RunCalls(<<"get_repo">>, fault)
        parsed == FromIsoFormat(since)
        run == IF resolved.exc # "ok" \/ parsed # "ok" THEN resolved
               ELSE RunCalls(<<"get_repo", "get_issues">>, fault)
        exc == IF resolved.exc # "ok" THEN resolved.exc
               ELSE IF parsed # "ok" THEN parsed ELSE run.exc
    IN /\ Returns("list_issues", [NoReq EXCEPT !.since = since],
                  IF exc = "ok"
                  THEN [shape |-> "iterator", kind |-> "success", payload |-> <<>>, text |-> <<>>]
                  ELSE Caught("none", exc),
                  run.trace, 0)
       /\ UNCHANGED <<items, file, local>>

\* return [comment.raw_data for comment in comments[:params.per_page]]
get_issue_comments(page, per_page, fault) ==
    LET run == RunCalls(<<"get_repo", "get_issue", "get_comments">> \o SliceCalls(0, per_page),
                        fault)
        data == Slice(items, 0, per_page)
    IN /\ Returns("get_issue_comments", PageReq(page, per_page),
                  IF run.exc = "ok"
                  THEN [shape |-> "list", kind |-> "success", payload |-> data, text |-> <<>>]
                  ELSE Caught("none", run.exc),
                  run.trace,
                  IF run.exc = "ok" THEN SliceFetched(items, 0, per_page) ELSE 0)
       /\ UNCHANGED <<items, file, local>>

\* ================================================================ pull_requests.py
\* get_repo(owner, repo_name): g.get_user(owner).get_repo(repo_name), None on
\* GithubException.  It is registered as a tool, and every other handler of the
\* file calls it before its own try.
ResolveCalls == <<"get_user", "get_repo">>
RepoNotFound == Envelope("error", <<>>, <<"Repository not found.">>)

get_repo(fault) ==
    LET run == RunCalls(ResolveCalls, fault)
    IN /\ Returns("get_repo", NoReq,
                  IF run.exc = "ok"
                  THEN [shape |-> "object", kind |-> "success", payload |-> <<1>>, text |-> <<>>]
                  ELSE IF Catches("GithubException", run.exc) THEN NoResult
                  ELSE Raised(run.exc),
                  run.trace, 0)
       /\ UNCHANGED <<items, file, local>>

\* repo = get_repo(..); if not repo: return "Repository not found."; then the
\* handler's own calls under try / except GithubException.  ok is the value of
\* the success path.
PullRequestTool(calls, ok, fault) ==
    LET run == RunCalls(ResolveCalls \o calls, fault)
    IN [trace |-> run.trace,
        exc |-> run.exc,
        res |-> IF run.exc = "ok" THEN ok
                ELSE IF run.failedAt <= Len(ResolveCalls)
                THEN IF Catches("GithubException", run.exc) THEN RepoNotFound
                     ELSE Raised(run.exc)
                ELSE Caught("GithubException", run.exc)]

\* return prs
create_pull_request(fault) ==
    LET out == PullRequestTool(<<"create_pull">>,
                   [shape |-> "object", kind |-> "success", payload |-> <<1>>, text |-> <<>>],
                   fault)
    IN /\ Returns("create_pull_request", NoReq, out.res, out.trace, 0)
       /\ UNCHANGED <<items, file, local>>

get_pull_request(fault) ==
    LET out == PullRequestTool(<<"get_pull">>, Success(<<1>>), fault)
    IN /\ Returns("get_pull_request", NoReq, out.res, out.trace, 0)
       /\ UNCHANGED <<items, file, local>>

update_pull_request(fault) ==
    LET out == PullRequestTool(<<"get_pull", "edit">>, Success(<<1>>), fault)
    IN /\ Returns("update_pull_request", NoReq, out.res, out.trace, 0)
       /\ UNCHANGED <<items, file, local>>

\* Optional enumerated parameters; "" stands for None (absent).  A present
\* value has passed the schema, so it is a member of its enum.
PullRequestStates == {"", "open", "closed", "all"}
PullRequestSorts == {"", "created", "updated", "popularity", "long-running"}
Directions == {"", "asc", "desc"}
MergeMethods == {"", "merge", "squash", "rebase"}

\* data.x.value if data.x else default
AlwaysDefault(value, default) == default
OrDefault(value, default) == IF value = "" THEN default ELSE value

\* pr_list = [pr.raw_data for pr in pulls]: the whole result set
list_pull_requests(page, per_page, state, sort, direction, fault) ==
    LET out == PullRequestTool(<<"get_pulls", "fetch">>, Success(items), fault)
        called == \E i \in DOMAIN out.trace : out.trace[i].op = "get_pulls"
    IN /\ Handed("list_pull_requests",
                 [PageReq(page, per_page) EXCEPT !.state = state, !.sort = sort,
                                                 !.direction = direction],
                 out.res, out.trace,
                 IF out.exc = "ok" THEN Len(items) ELSE 0)
       /\ forwarded' = IF called
                       THEN [NoForward EXCEPT !.state = OrDefault(state, "open"),
                                              !.sort = OrDefault(sort, "created"),
                                              !.direction = OrDefault(direction, "desc")]
                       ELSE NoForward
       /\ UNCHANGED <<items, file, local>>

merge_pull_request(merge_method, fault) ==
    LET out == PullRequestTool(<<"get_pull", "merge">>, Success(<<1>>), fault)
        called == \E i \in DOMAIN out.trace : out.trace[i].op = "merge"
    IN /\ Handed("merge_pull_request", [NoReq EXCEPT !.merge_method = merge_method],
                 out.res, out.trace, 0)
       /\ forwarded' = IF called
                       THEN [NoForward EXCEPT !.merge_method = OrDefault(merge_method, "merge")]
                       ELSE NoForward
       /\ UNCHANGED <<items, file, local>>

\* file_list = [file.raw_data for file in files]: the whole result set
get_pull_request_files(page, per_page, fault) ==
    LET out == PullRequestTool(<<"get_pull", "get_files", "fetch">>, Success(items), fault)
    IN /\ Returns("get_pull_request_files", PageReq(page, per_page), out.res, out.trace,
                  IF out.exc = "ok" THEN Len(items) ELSE 0)
       /\ UNCHANGED <<items, file, local>>

get_pull_request_status(fault) ==
    LET out == PullRequestTool(<<"get_pull", "get_commit", "get_combined_status">>,
                               Success(<<1>>), fault)
    IN /\ Returns("get_pull_request_status", NoReq, out.res, out.trace, 0)
       /\ UNCHANGED <<items, file, local>>

\* ================================================================ search_repo.py
\* The three search tools share one body: build the lazy search, consume its
\* [start:end] slice, read totalCount; except GithubException -> {"error": str(e)}.
SearchError(exc) ==
    IF Catches("GithubException", exc)
    THEN [shape |-> "dict", kind |-> "error", payload |-> <<>>, text |-> <<exc>>]
    ELSE Raised(exc)

SearchTool(query, page, per_page, fault) ==
    LET start == WindowStart(page, per_page)
        end == WindowEnd(page, per_page)
        \* the slice is consumed before totalCount is read
        run == IF SliceRaises(start, end) THEN RunCalls(<<query>>, fault)
               ELSE RunCalls(<<query>> \o SliceCalls(start, end) \o <<"total_count">>, fault)
    IN [trace |-> run.trace,
        res |-> IF run.exc # "ok" THEN SearchError(run.exc)
                ELSE IF SliceRaises(start, end) THEN SearchError("index_error")
                ELSE [shape |-> "dict", kind |-> "success",
                      payload |-> Slice(items, start, end), text |-> <<>>],
        n |-> IF run.exc # "ok" \/ SliceRaises(start, end) THEN 0
              ELSE SliceFetched(items, start, end)]

search_repositories(page, per_page, fault) ==
    LET out == SearchTool("search_repositories", page, per_page, fault)
    IN /\ Returns("search_repositories", PageReq(page, per_page), out.res, out.trace, out.n)
       /\ UNCHANGED <<items, file, local>>

search_code(page, per_page, fault) ==
    LET out == SearchTool("search_code", page, per_page, fault)
    IN /\ Returns("search_code", PageReq(page, per_page), out.res, out.trace, out.n)
       /\ UNCHANGED <<items, file, local>>

search_users(page, per_page, fault) ==
    LET out == SearchTool("search_users", page, per_page, fault)
    IN /\ Returns("search_users", PageReq(page, per_page), out.res, out.trace, out.n)
       /\ UNCHANGED <<items, file, local>>

\* ================================================================ specifications
ItemSeq(n) == [i \in 1..n |-> i]

InitCaller ==
    /\ lastOp = "none"
    /\ req = NoReq
    /\ result = NoResult
    /\ upTrace = <<>>
    /\ forwarded = NoForward
    /\ fetched = 0

\* The tools that talk to upstream: any result set, no file yet, and a
\* working copy nobody touches.
InitRepo ==
    /\ items \in {ItemSeq(n) : n \in 0..MaxItems}
    /\ file = 0
    /\ local = NoRepo(TRUE, FALSE)
    /\ InitCaller

NextRepo ==
    \/ \E fault \in FaultsFor(2) : get_commit(fault)
    \/ \E page \in Pages, per_page \in PerPages, fault \in FaultsFor(3) :
          list_commits(page, per_page, fault)
    \/ \E page \in Pages, per_page \in PerPages, fault \in FaultsFor(3) :
          list_branches(page, per_page, fault)
    \/ \E content \in Contents, sha \in Shas, serialisable \in BOOLEAN, fault \in FaultsFor(2) :
          create_or_update_file(content, sha, serialisable, fault)
    \/ \E fault \in FaultsFor(2) : create_repository(fault)
    \/ \E fault \in FaultsFor(2) : fork_repository(fault)

SpecRepo == InitRepo /\ [][NextRepo]_vars

\* git_issues.py
NextIssues ==
    \/ \E fault \in FaultsFor(2) : get_issue(fault)
    \/ \E fault \in FaultsFor(3) : add_issue_comment(fault)
    \/ \E page \in Pages, per_page \in PerPages, fault \in FaultsFor(2) :
          search_issues(page, per_page, fault)
    \/ \E fault \in FaultsFor(2) : create_issue(fault)
    \/ \E since \in Sinces, fault \in FaultsFor(2) : list_issues(since, fault)
    \/ \E page \in Pages, per_page \in PerPages, fault \in FaultsFor(4) :
          get_issue_comments(page, per_page, fault)

SpecIssues == InitRepo /\ [][NextIssues]_vars

\* pull_requests.py
NextPulls ==
    \/ \E fault \in FaultsFor(2) : get_repo(fault)
    \/ \E fault \in FaultsFor(3) : create_pull_request(fault)
    \/ \E fault \in FaultsFor(3) : get_pull_request(fault)
    \/ \E fault \in FaultsFor(4) : update_pull_request(fault)
    \/ \E page \in Pages, per_page \in PerPages, fault \in FaultsFor(4) :
          list_pull_requests(page, per_page, "", "", "", fault)
    \/ \E fault \in FaultsFor(4) : merge_pull_request("", fault)
    \/ \E page \in Pages, per_page \in PerPages, fault \in FaultsFor(5) :
          get_pull_request_files(page, per_page, fault)
    \/ \E fault \in FaultsFor(5) : get_pull_request_status(fault)

SpecPulls == InitRepo /\ [][NextPulls]_vars

\* search_repo.py
NextSearch ==
    \/ \E page \in Pages, per_page \in PerPages, fault \in FaultsFor(3) :
          search_repositories(page, per_page, fault)
    \/ \E page \in Pages, per_page \in PerPages, fault \in FaultsFor(3) :
          search_code(page, per_page, fault)
    \/ \E page \in Pages, per_page \in PerPages, fault \in FaultsFor(3) :
          search_users(page, per_page, fault)

SpecSearch == InitRepo /\ [][NextSearch]_vars

\* push_to_github, over every working copy it can be pointed at: a missing
\* path, a plain directory, or a repository with or without a commit, with or
\* without a remote named origin.
LocalRepos ==
    {NoRepo(FALSE, FALSE)} \cup {NoRepo(TRUE, d) : d \in BOOLEAN}
    \cup {[exists |-> TRUE, isRepo |-> TRUE, commits |-> c, dirty |-> d, staged |-> FALSE,
           branch |-> "master", origin |-> o, pushedTo |-> "none"] :
              c \in {<<>>, <<"earlier">>}, d \in BOOLEAN, o \in {"none"} \cup Urls}

InitPush ==
    /\ items = <<>>
    /\ file = 0
    /\ local \in LocalRepos
    /\ InitCaller

NextPush ==
    \E remote_url \in Urls, branch \in Branches, commit_msg \in CommitMsgs,
       answer \in PushAnswers, fault \in PushFaults :
        push_to_github(remote_url, branch, commit_msg, answer, fault)

SpecPush == InitPush /\ [][NextPush]_vars

\* Every tool of the four upstream files, called with page and per_page left
\* at their schema defaults.
DefaultPage == 1
DefaultPerPage == 30

InitTools ==
    /\ items = ItemSeq(MaxItems)
    /\ file = 0
    /\ local = NoRepo(TRUE, FALSE)
    /\ InitCaller

NextTools ==
    \/ \E fault \in FaultsFor(2) : get_commit(fault)
    \/ \E fault \in FaultsFor(3) : list_commits(DefaultPage, DefaultPerPage, fault)
    \/ \E fault \in FaultsFor(3) : list_branches(DefaultPage, DefaultPerPage, fault)
    \/ \E content \in Contents, sha \in Shas, serialisable \in BOOLEAN, fault \in FaultsFor(2) :
          create_or_update_file(content, sha, serialisable, fault)
    \/ \E fault \in FaultsFor(2) : create_repository(fault)
    \/ \E fault \in FaultsFor(2) : fork_repository(fault)
    \/ \E fault \in FaultsFor(2) : get_issue(fault)
    \/ \E fault \in FaultsFor(3) : add_issue_comment(fault)
    \/ \E fault \in FaultsFor(2) : search_issues(DefaultPage, DefaultPerPage, fault)
    \/ \E fault \in FaultsFor(2) : create_issue(fault)
    \/ \E since \in Sinces, fault \in FaultsFor(2) : list_issues(since, fault)
    \/ \E fault \in FaultsFor(4) : get_issue_comments(DefaultPage, DefaultPerPage, fault)
    \/ \E fault \in FaultsFor(2) : get_repo(fault)
    \/ \E fault \in FaultsFor(3) : create_pull_request(fault)
    \/ \E fault \in FaultsFor(3) : get_pull_request(fault)
    \/ \E fault \in FaultsFor(4) : update_pull_request(fault)
    \/ \E fault \in FaultsFor(4) :
          list_pull_requests(DefaultPage, DefaultPerPage, "", "", "", fault)
    \/ \E fault \in FaultsFor(4) : merge_pull_request("", fault)
    \/ \E fault \in FaultsFor(5) : get_pull_request_files(DefaultPage, DefaultPerPage, fault)
    \/ \E fault \in FaultsFor(5) : get_pull_request_status(fault)
    \/ \E fault \in FaultsFor(3) : search_repositories(DefaultPage, DefaultPerPage, fault)
    \/ \E fault \in FaultsFor(3) : search_code(DefaultPage, DefaultPerPage, fault)
    \/ \E fault \in FaultsFor(3) : search_users(DefaultPage, DefaultPerPage, fault)

SpecTools == InitTools /\ [][NextTools]_vars

\* list_pull_requests and merge_pull_request with every combination of their
\* optional enumerated parameters, page and per_page at their defaults.
NextForward ==
    \/ \E state \in PullRequestStates, sort \in PullRequestSorts,
          direction \in Directions, fault \in FaultsFor(4) :
          list_pull_requests(DefaultPage, DefaultPerPage, state, sort, direction, fault)
    \/ \E merge_method \in MergeMethods, fault \in FaultsFor(4) :
          merge_pull_request(merge_method, fault)

SpecForward == InitTools /\ [][NextForward]_vars

\* Everything together.
Init == InitRepo \/ InitPush
Next == NextRepo \/ NextIssues \/ NextPulls \/ NextSearch \/ NextPush \/ NextForward
Spec == Init /\ [][Next]_vars

\* ================================================================ properties
Range(s) == {s[i] : i \in DOMAIN s}
Calls(op) == {i \in DOMAIN upTrace : upTrace[i].op = op}
SucceededCalls(op) == {i \in Calls(op) : upTrace[i].outcome = "ok"}
UpstreamFailed == \E i \in DOMAIN upTrace : upTrace[i].outcome \in Failures
IsSuccessEnvelope(res) == res.shape = "envelope" /\ res.kind = "success"
IsErrorEnvelope(res) == res.shape = "envelope" /\ res.kind = "error" /\ res.text # <<>>

ListingOps == {"list_commits", "list_branches", "list_pull_requests",
               "get_pull_request_files", "get_issue_comments", "search_issues",
               "search_repositories", "search_code", "search_users"}

\* The upstream items at 0-based positions [(page-1)*per_page, page*per_page).
PageWindow(s, page, per_page) ==
    SubSeqOrEmpty(s, (page - 1) * per_page + 1, Min(page * per_page, Len(s)))

\* C1: a listing operation asked for page >= 1 and per_page >= 1, whose upstream
\* calls all succeed, returns at most per_page items, exactly the upstream items
\* of the requested window in upstream order (none when the window lies beyond
\* the data).
C1_PageIsRequestedWindow ==
    (lastOp \in ListingOps /\ req.page >= 1 /\ req.per_page >= 1 /\ ~UpstreamFailed)
        => /\ result.kind = "success"
           /\ Len(result.payload) <= req.per_page
           /\ result.payload = PageWindow(items, req.page, req.per_page)

\* C2: no exception leaves a handler, and an invocation in which an upstream
\* call failed returns an error result carrying a message.
C2_NoExceptionEscapes ==
    lastOp # "none"
        => /\ result.shape # "raised"
           /\ UpstreamFailed => (result.kind = "error" /\ result.text # <<>>)

\* C3: a listing operation asked for page < 1 or per_page < 1 returns the
\* validation error envelope and makes no upstream call.
C3_BadWindowRejectedBeforeUpstream ==
    (lastOp \in ListingOps /\ (req.page < 1 \/ req.per_page < 1))
        => /\ result = Error("validation_error")
           /\ upTrace = <<>>

\* C4: no upstream call is attempted more than MaxAttempts times, and a call
\* that fails with a transient failure is attempted again: an invocation ends on
\* a transient failure only after MaxAttempts attempts of the failing call.
C4_TransientFailureIsRetried ==
    \A i \in DOMAIN upTrace :
        /\ Cardinality(Calls(upTrace[i].op)) <= MaxAttempts
        /\ upTrace[i].outcome \in Transient
              => Cardinality(Calls(upTrace[i].op)) = MaxAttempts

\* C5: an upstream call that fails with a non-transient failure is the last
\* upstream call of the invocation, was made exactly once, and the invocation
\* does not report success.
C5_PermanentFailureNotRetried ==
    \A i \in DOMAIN upTrace :
        upTrace[i].outcome \in Failures \ Transient
            => /\ i = Len(upTrace)
               /\ Cardinality(Calls(upTrace[i].op)) = 1
               /\ result.kind # "success"

C5_Witness ==
    /\ lastOp = "merge_pull_request"
    /\ Len(upTrace) = 4
    /\ upTrace[4] = [op |-> "merge", outcome |-> "conflict"]
    /\ result = Error("conflict")

\* C6: whatever a handler returns is the result envelope, as a success or as an
\* error with its message; never a library object, a lazy result set, a bare
\* list, another dictionary or None.
C6_EveryReturnIsEnvelope ==
    (lastOp # "none" /\ result.shape # "raised")
        => /\ result.shape = "envelope"
           /\ result.kind \in {"success", "error"}
           /\ result.kind = "error" <=> result.text # <<>>

\* C7: for the mutating operations, an error envelope means the upstream
\* mutation did not take effect, and a mutation that took effect means a
\* success envelope.
MutatingOps == {"create_or_update_file", "update_pull_request", "merge_pull_request",
                "add_issue_comment"}
MutationCalls == {"create_file", "update_file", "edit", "merge", "create_comment"}
MutationTookEffect == \E op \in MutationCalls : SucceededCalls(op) # {}

C7_NoPartialSuccess ==
    lastOp \in MutatingOps
        => /\ IsErrorEnvelope(result) => ~MutationTookEffect
           /\ MutationTookEffect => IsSuccessEnvelope(result)

\* C8: once the repository resolves, create_or_update_file without a sha makes
\* exactly one upstream create and no update; called with the sha of the file
\* now stored at the path it makes exactly one upstream update and no create,
\* and when that update is accepted the path holds the content of this call.
RepoResolved(trace) == trace # <<>> /\ trace[1] = [op |-> "get_repo", outcome |-> "ok"]
CallCount(trace, op) == Cardinality({i \in DOMAIN trace : trace[i].op = op})

C8_CreateThenUpdate ==
    [][(lastOp' = "create_or_update_file" /\ RepoResolved(upTrace'))
          => /\ req'.sha = NoneSha
                 => /\ CallCount(upTrace', "create_file") = 1
                    /\ CallCount(upTrace', "update_file") = 0
             /\ (file # 0 /\ req'.sha = ShaOf(file))
                 => /\ CallCount(upTrace', "update_file") = 1
                    /\ CallCount(upTrace', "create_file") = 0
                    /\ upTrace'[2].outcome = "ok" => file' = req'.content]_vars

\* a file created earlier with one content has just been updated to another
C8_Witness ==
    /\ lastOp = "create_or_update_file"
    /\ req.sha \in {ShaOf(c) : c \in Contents \ {req.content}}
    /\ upTrace = <<[op |-> "get_repo", outcome |-> "ok"], [op |-> "update_file", outcome |-> "ok"]>>
    /\ file = req.content
    /\ IsSuccessEnvelope(result)

\* C9: push_to_github commits only into a repository that has no commit: a
\* call that finds HEAD valid leaves the history as it is, a call adds at most
\* one commit, and over any run the commits made by the tool number at most one.
ToolCommits(commits) == {i \in DOMAIN commits : commits[i] # "earlier"}

C9_CommitOnlyIfNone ==
    /\ [](Cardinality(ToolCommits(local.commits)) <= 1)
    /\ [][lastOp' = "push_to_github"
            => /\ HeadIsValid(local) => local'.commits = local.commits
               /\ Len(local'.commits) <= Len(local.commits) + 1
               /\ SubSeq(local'.commits, 1, Len(local.commits)) = local.commits]_vars

\* a push that found the commit an earlier push had made, and pushed without
\* committing again
C9_Witness ==
    /\ lastOp = "push_to_github"
    /\ local.commits = <<"Initial commit">>
    /\ Calls("commit") = {}
    /\ SucceededCalls("push") # {}

\* C10: when the owner/repo pair or the numbered resource does not resolve, the
\* handler returns the error envelope whose message keeps the upstream message,
\* the same way in every handler.
ResolutionCalls == {"get_user", "get_repo", "get_issue", "get_pull", "get_commit"}

C10_UniformNotFound ==
    \A i \in DOMAIN upTrace :
        (upTrace[i].op \in ResolutionCalls /\ upTrace[i].outcome = "not_found")
            => result = Error("not_found")

\* C11: list_pull_requests forwards state, sort and direction, and
\* merge_pull_request forwards merge_method, as the caller gave them; one the
\* caller left out goes upstream as open, created, desc and merge.
C11_DefaultsForwarded ==
    /\ (lastOp = "list_pull_requests" /\ Calls("get_pulls") # {})
          => /\ forwarded.state = (IF req.state = "" THEN "open" ELSE req.state)
             /\ forwarded.sort = (IF req.sort = "" THEN "created" ELSE req.sort)
             /\ forwarded.direction = (IF req.direction = "" THEN "desc" ELSE req.direction)
    /\ (lastOp = "merge_pull_request" /\ Calls("merge") # {})
          => forwarded.merge_method =
                 (IF req.merge_method = "" THEN "merge" ELSE req.merge_method)

\* a listing that left out state and direction and asked for sort=updated
C11_Witness ==
    /\ lastOp = "list_pull_requests"
    /\ req.state = "" /\ req.sort = "updated" /\ req.direction = ""
    /\ SucceededCalls("get_pulls") # {}
    /\ forwarded = [NoForward EXCEPT !.state = "open", !.sort = "updated", !.direction = "desc"]

\* C12: push_to_github takes its version-control steps in the order ensure
\* the repository, stage, commit, branch, remote, push; a step that fails is the
\* last one taken and the result is an error; a success result is returned only
\* when the push step completed.
StepRank(op) ==
    CASE op = "Repo" -> 1
      [] op = "Repo.init" -> 2
      [] op = "add" -> 3
      [] op = "commit" -> 4
      [] op = "branch" -> 5
      [] op \in {"create_remote", "remote"} -> 6
      [] op = "push" -> 7
      [] OTHER -> 0

\* Repo(path) answering "not a repository" is how the handler learns it has to
\* initialise one; every other outcome than ok is a step that failed.
StepFailed(e) == e.outcome # "ok" /\ ~(e.op = "Repo" /\ e.outcome = "invalid_repo")

C12_StepsInOrder ==
    lastOp = "push_to_github"
      => /\ \A i, j \in DOMAIN upTrace :
                i < j => /\ 0 < StepRank(upTrace[i].op)
                         /\ StepRank(upTrace[i].op) < StepRank(upTrace[j].op)
         /\ \A i \in DOMAIN upTrace :
                StepFailed(upTrace[i]) => i = Len(upTrace) /\ IsErrorEnvelope(result)
         /\ IsSuccessEnvelope(result) => SucceededCalls("push") # {}

\* The order and the stop at the first failure, taken on their own.
C12_OrderAndAbort ==
    lastOp = "push_to_github"
      => /\ \A i, j \in DOMAIN upTrace :
                i < j => /\ 0 < StepRank(upTrace[i].op)
                         /\ StepRank(upTrace[i].op) < StepRank(upTrace[j].op)
         /\ \A i \in DOMAIN upTrace : StepFailed(upTrace[i]) => i = Len(upTrace)
         /\ \A i \in DOMAIN upTrace :
                upTrace[i].outcome = "git_error" => IsErrorEnvelope(result)

\* C13: when a step of push_to_github fails, what the steps before it did to the
\* local repository is still there when the handler returns: the repository
\* initialised, the changes staged, the commit made, the branch renamed, the
\* remote created.
Did(trace, op) == \E i \in DOMAIN trace : trace[i].op = op /\ trace[i].outcome = "ok"

C13_NoRollback ==
    [][(lastOp' = "push_to_github" /\ \E i \in DOMAIN upTrace' : StepFailed(upTrace'[i]))
          => /\ Did(upTrace', "Repo.init") => local'.isRepo
             /\ Did(upTrace', "add")
                   => /\ ~local'.dirty
                      /\ (local.dirty /\ ~Did(upTrace', "commit")) => local'.staged
             /\ Did(upTrace', "commit")
                   => local'.commits = Append(local.commits, CommitMsgOf(req'.commit_msg))
             /\ Did(upTrace', "branch") => local'.branch = BranchOf(req'.branch)
             /\ Did(upTrace', "create_remote") => local'.origin = req'.remote_url
             /\ local'.exists]_vars

\* a push that raised after the repository was initialised, the first commit
\* made, the branch renamed and origin created
C13_Witness ==
    /\ lastOp = "push_to_github"
    /\ IsErrorEnvelope(result)
    /\ Calls("push") # {} /\ SucceededCalls("push") = {}
    /\ Did(upTrace, "Repo.init") /\ Did(upTrace, "commit") /\ Did(upTrace, "create_remote")
    /\ local.isRepo
    /\ local.commits = <<"Initial commit">>
    /\ local.branch = "main"
    /\ local.origin = req.remote_url
    /\ local.pushedTo = "none"

\* C14: a listing asked for page p of size n materialises at most p * n of the
\* upstream items; no listing handler walks the whole upstream result set when
\* the window ends before it.
C14_MaterialisesAtMostWindow ==
    (lastOp \in ListingOps /\ req.page >= 1 /\ req.per_page >= 1)
        => fetched <= req.page * req.per_page

====
